---- MODULE Spec2Model ----
(***************************************************************************)
(* Model of the fault-tolerant command executor: the control server's      *)
(* command store (server/src/db/database.ts) and its agent-facing and      *)
(* client-facing HTTP handlers (server/src/routes).  better-sqlite3 is     *)
(* synchronous, so every handler runs to completion before the next one    *)
(* starts: one action per handler.                                         *)
(*                                                                         *)
(* Time is the value of Date.now().  ISO-8601 strings of toISOString()     *)
(* compare as the instants they denote, so timestamps are integers.        *)
(*                                                                         *)
(* A response is what the handler sends back; resp holds the last one an   *)
(* observer has seen.  Each handler takes a flag saying whether its         *)
(* response is observed: Spec follows the store alone, ApiSpec also the    *)
(* responses; SubmitSpec follows the clients of POST /commands with every  *)
(* request body.                                                           *)
(*                                                                         *)
(* The agent processes (agent/src/index.ts) are followed await by await    *)
(* in AgentSpec, with crashes, lost messages and server restarts;          *)
(* FairAgentSpec adds the scheduling the timers and loops give, HappySpec  *)
(* is the single agent without faults, ExecSpec the single agent with      *)
(* commands of every kind and executors (agent/src/executor/commands.ts)   *)
(* that return or throw.  ExecutorSpec follows one executor call alone,    *)
(* await by await, with the sleeps of DELAY and the response of            *)
(* HTTP_GET_JSON; FairExecutorSpec adds that timers fire.                  *)
(***************************************************************************)
EXTENDS Integers, FiniteSets, Sequences, TLC

\* ---------------------------------------------------------------- bounds
MaxCmds == 2
MaxTime == 1

\* COMMAND_TIMEOUT, in clock units: the clock is coarser than the timeout, so
\* a heartbeat of an earlier clock value is older than now - COMMAND_TIMEOUT
CommandTimeout == 0

CmdIds == 1..MaxCmds
Agents == {"a1", "a2"}

\* SQL NULL / JS null / a missing body field, per column type
NoAgent == "NULL"
NoCmd   == 0
NoTime  == -1
NoText  == "NULL"
NoError == "none"

Terminal == {"COMPLETED", "FAILED"}

VARIABLES
    commands,    \* table commands: id -> row
    heartbeats,  \* table agent_heartbeats: agent_id -> row
    now,         \* Date.now()
    resp,        \* the last request handled and the response it got
    agent,       \* the agent processes: agentId -> position in Agent.start()
    executed,    \* command id -> calls of executeCommand on it, by any agent
    assigned,    \* command id -> times a fetch took it from PENDING to RUNNING
    faults,      \* agent crashes, lost messages and server restarts so far
    run          \* the executor call that is followed statement by statement

agentVars == <<agent, executed, assigned, faults, run>>
vars == <<commands, heartbeats, now, resp, agent, executed, assigned, faults, run>>

\* ------------------------------------------------------- JSON conversions
\* JS values that travel as payload/result: "null" is JS null, the others
\* are objects.  JSON.stringify gives the stored text, JSON.parse reads it.
\* "ms:1e999" is the body text {"ms": 1e999}, which express.json() parses to
\* the number Infinity; JSON.stringify writes a number that is not finite as
\* null.
JSONstringify(v) ==
    CASE v = "null"      -> "'null'"
      [] v = "res"       -> "'{res}'"
      [] v = "res+error" -> "'{res,error}'"
      [] v = "error"     -> "'{error}'"
      [] v = "ms:500"    -> "'{ms:500}'"
      [] v = "ms:0"      -> "'{ms:0}'"
      [] v = "ms:1e999"  -> "'{ms:null}'"
      [] v = "url:ok"    -> "'{url:ok}'"
      [] v = "url:bad"   -> "'{url:bad}'"

JSONparse(t) ==
    CASE t = "'null'"        -> "null"
      [] t = "'{res}'"       -> "res"
      [] t = "'{res,error}'" -> "res+error"
      [] t = "'{error}'"     -> "error"
      [] t = "'{ms:500}'"    -> "ms:500"
      [] t = "'{ms:0}'"      -> "ms:0"
      [] t = "'{ms:null}'"   -> "ms:null"
      [] t = "'{url:ok}'"    -> "url:ok"
      [] t = "'{url:bad}'"   -> "url:bad"

\* { ...result, error }
SpreadWithError(result) ==
    IF result = "null" THEN "error" ELSE "res+error"

\* rowToCommand: a database row as a Command object
rowToCommand(id, row) ==
    [ id          |-> id,
      type        |-> row.type,
      payload     |-> JSONparse(row.payload),
      status      |-> row.status,
      result      |-> IF row.result # NoText THEN JSONparse(row.result) ELSE "null",
      agentId     |-> row.agent_id,
      createdAt   |-> row.created_at,
      updatedAt   |-> row.updated_at,
      startedAt   |-> row.started_at,
      completedAt |-> row.completed_at ]

\* ------------------------------------------------------------ the store
Ids == DOMAIN commands

\* fault: the REPLACE keeps the command the record named before
updateHeartbeatKeepCommand(hb, agentId, commandId) ==
    [a \in (DOMAIN hb) \cup {agentId} |->
        IF a = agentId
        THEN [last_heartbeat |-> now,
              current_command_id |-> IF a \in DOMAIN hb
                                     THEN hb[a].current_command_id ELSE commandId]
        ELSE hb[a]]

\* INSERT OR REPLACE INTO agent_heartbeats ... VALUES (agentId, now, commandId || null)
updateHeartbeat(hb, agentId, commandId) ==
    [a \in (DOMAIN hb) \cup {agentId} |->
        IF a = agentId
        THEN [last_heartbeat |-> now, current_command_id |-> commandId]
        ELSE hb[a]]

\* fault: the check for a command the agent already runs finds nothing
RunningOfNothing(agentId) == {}

\* SELECT * FROM commands WHERE agent_id = ? AND status = 'RUNNING'
RunningOf(agentId) ==
    {id \in Ids : commands[id].agent_id = agentId /\ commands[id].status = "RUNNING"}

\* SELECT * FROM commands WHERE status = 'PENDING' ORDER BY created_at ASC LIMIT 1
\* (rows with equal created_at come in an order SQL leaves open)
PendingIds == {id \in Ids : commands[id].status = "PENDING"}

\* fault: the SELECT reads rows another fetch has already assigned
NextPendingStaleRead ==
    LET open == {id \in Ids : commands[id].status \in {"PENDING", "RUNNING"}}
    IN  {id \in open : \A o \in open : commands[id].created_at <= commands[o].created_at}

\* fault: no ORDER BY, any PENDING row is taken
NextPendingUnordered == PendingIds

NextPending ==
    {id \in PendingIds :
        \A o \in PendingIds : commands[id].created_at <= commands[o].created_at}

\* UPDATE commands SET status = 'RUNNING', agent_id = ?, started_at = ?, updated_at = ? WHERE id = ?
AssignRow(row, agentId) ==
    [row EXCEPT !.status = "RUNNING", !.agent_id = agentId,
                !.started_at = now, !.updated_at = now]

\* fault: the object built for a new assignment keeps the row's old updatedAt
AssignedCommandOldUpdate(id, row, agentId) ==
    [rowToCommand(id, row) EXCEPT !.status = "RUNNING", !.agentId = agentId,
                                  !.startedAt = now]

\* the object fetchNextCommand builds for a new assignment
AssignedCommand(id, row, agentId) ==
    [rowToCommand(id, row) EXCEPT !.status = "RUNNING", !.agentId = agentId,
                                  !.startedAt = now, !.updatedAt = now]

\* fault: the SELECT of completeCommand does not look at the owner
OwnsRunningAnyAgent(commandId, agentId) ==
    /\ commandId \in Ids
    /\ commands[commandId].status = "RUNNING"

\* the WHERE clause of completeCommand's SELECT
OwnsRunning(commandId, agentId) ==
    /\ commandId \in Ids
    /\ commands[commandId].agent_id = agentId
    /\ commands[commandId].status = "RUNNING"

\* fault: the UPDATE of completeCommand stores the result but not the status
CompleteRowNoStatus(row, status, result, error) ==
    LET finalResult == IF error # NoError THEN SpreadWithError(result) ELSE result
    IN  [row EXCEPT !.result = JSONstringify(finalResult),
                    !.completed_at = now, !.updated_at = now]

\* UPDATE commands SET status = ?, result = ?, completed_at = ?, updated_at = ?
CompleteRow(row, status, result, error) ==
    LET finalResult == IF error # NoError THEN SpreadWithError(result) ELSE result
    IN  [row EXCEPT !.status = status, !.result = JSONstringify(finalResult),
                    !.completed_at = now, !.updated_at = now]

\* fault: the reset puts the command at the end of the queue
ResetRowRecreated(row) ==
    [row EXCEPT !.status = "PENDING", !.agent_id = NoAgent,
                !.started_at = NoTime, !.updated_at = now, !.created_at = now]

\* fault: the reset leaves the owner column set
ResetRowKeepOwner(row) ==
    [row EXCEPT !.status = "PENDING", !.started_at = NoTime, !.updated_at = now]

\* UPDATE commands SET status = 'PENDING', agent_id = NULL, started_at = NULL, updated_at = ?
ResetRow(row) ==
    [row EXCEPT !.status = "PENDING", !.agent_id = NoAgent,
                !.started_at = NoTime, !.updated_at = now]

\* fault: the SELECT has no cutoff, every agent with a command is taken
StaleAgentsNoCutoff(timeoutMs) ==
    {a \in DOMAIN heartbeats : heartbeats[a].current_command_id # NoCmd}

\* fault: the cutoff comparison is turned around
StaleAgentsFresh(timeoutMs) ==
    {a \in DOMAIN heartbeats :
        /\ heartbeats[a].last_heartbeat > now - timeoutMs
        /\ heartbeats[a].current_command_id # NoCmd}

\* SELECT agent_id FROM agent_heartbeats
\*  WHERE last_heartbeat < cutoff AND current_command_id IS NOT NULL
StaleAgents(timeoutMs) ==
    {a \in DOMAIN heartbeats :
        /\ heartbeats[a].last_heartbeat < now - timeoutMs
        /\ heartbeats[a].current_command_id # NoCmd}

\* fault: initialize() does not call recoverFromCrash()
CrashedNone == {}

\* fault: recovery resets every command that was ever assigned
CrashedAssigned == {id \in Ids : commands[id].status # "PENDING"}

\* SELECT id FROM commands WHERE status = 'RUNNING'  (recoverFromCrash)
CrashedRunning == {id \in Ids : commands[id].status = "RUNNING"}

\* fault: the route answers a rejected report without the re-read
AlreadyCompletedNever(commandId) == FALSE

\* the re-read of POST /agent/result after completeCommand returned false:
\* command && (command.status === 'COMPLETED' || command.status === 'FAILED')
AlreadyCompleted(commandId) ==
    /\ commandId \in Ids
    /\ rowToCommand(commandId, commands[commandId]).status \in Terminal

\* ------------------------------------------------------------- responses
NoCommand == <<>>

\* a request without type and payload fields (every request but POST /commands)
NoBody == [type |-> "none", payload |-> "none"]

Response(op, agentId, commandId, status, code, ok, command) ==
    [op |-> op, agentId |-> agentId, commandId |-> commandId, status |-> status,
     code |-> code, ok |-> ok, command |-> command, body |-> NoBody]

\* POST /commands: the request body and its answer, 400 {error} or 201 {commandId}
CreateResponse(body, commandId, code) ==
    [Response("create", NoAgent, commandId, "", code, code = 201, NoCommand)
        EXCEPT !.body = body]

Reply(observed, r) == resp' = IF observed THEN r ELSE resp

\* ------------------------------------------------ POST /commands validation
isValidCommandType(type) == type \in {"DELAY", "HTTP_GET_JSON"}

\* fault: the route stores a payload without validating it
validatePayloadSkipped(type, payload) == FALSE

\* validatePayload: TRUE when it returns an error message
validatePayload(type, payload) ==
    CASE type = "DELAY"         -> payload \notin {"ms:500", "ms:0", "ms:1e999"}
                                      \/ payload = "ms:0"
      [] type = "HTTP_GET_JSON" -> payload \notin {"url:ok", "url:bad"} \/ payload = "url:bad"

\* request bodies of POST /commands: every combination of a type and a payload,
\* and the two of them an observer of the responses submits
Body(type, payload) == [type |-> type, payload |-> payload]
Bodies ==
    {Body(t, p) : t \in {"missing", "DELAY", "HTTP_GET_JSON", "SHELL"},
                  p \in {"missing", "ms:500", "ms:0", "ms:1e999", "url:ok", "url:bad"}}
ApiBodies == {Body("DELAY", "ms:500"), Body("DELAY", "ms:0")}

\* ------------------------------------------------------------ executors
\* executeCommand(command): what the call gives.  threw: the promise was
\* rejected with Error(message); otherwise value is the CommandResult.  net is
\* what the network did to the GET of an HTTP_GET_JSON command.
NoNet   == "none"
NoValue == [none |-> TRUE]
Returned(net, value) == [threw |-> FALSE, net |-> net, value |-> value, message |-> NoError]
Threw(message)       == [threw |-> TRUE, net |-> NoNet, value |-> NoValue, message |-> message]
NoOutcome            == Returned(NoNet, NoValue)

\* the GET is answered; the connection fails before a response; no response
\* within the 30 s of the AbortController; the body cannot be read
Net == {"ok", "refused", "deadline", "bodyError"}

\* typeof payload.ms === 'number', typeof payload.url === 'string'
isDelayPayload(payload)       == payload \in {"ms:500", "ms:0", "ms:1e999"}
isHttpGetJsonPayload(payload) == payload \in {"url:ok", "url:bad"}

\* executeDelay: { ok: true, tookMs }
executeDelay(payload) == Returned(NoNet, [ok |-> TRUE])

\* fault: executeHttpGetJson without its catch
executeHttpGetJsonNoCatch(payload, net) ==
    IF net = "ok"
    THEN Returned(net, [status |-> 200, body |-> "json", truncated |-> FALSE,
                        bytesReturned |-> 1, error |-> "null"])
    ELSE Threw(net)

\* executeHttpGetJson: fetch, response.text() and the parsing are inside one
\* try, whose catch returns the failure as a result; the message is that of
\* the rejection
executeHttpGetJson(payload, net) ==
    IF net = "ok"
    THEN Returned(net, [status |-> 200, body |-> "json", truncated |-> FALSE,
                        bytesReturned |-> 1, error |-> "null"])
    ELSE Returned(net, [status |-> 0, body |-> "null", truncated |-> FALSE,
                        bytesReturned |-> 0, error |-> net])

\* executeCommand: the outcomes the call can have
executeCommand(command) ==
    CASE command.type = "DELAY" ->
            IF ~isDelayPayload(command.payload)
            THEN {Threw("Invalid DELAY payload")}
            ELSE {executeDelay(command.payload)}
      [] command.type = "HTTP_GET_JSON" ->
            IF ~isHttpGetJsonPayload(command.payload)
            THEN {Threw("Invalid HTTP_GET_JSON payload")}
            ELSE {executeHttpGetJson(command.payload, net) : net \in Net}
      [] OTHER -> {Threw("Unknown command type")}

\* ------------------------------------- the executors, statement by statement
\* executeDelay: const chunkSize = 1000
chunkSize == 1000

\* fault: executeDelay sleeps the whole remainder at once
SleepTimeWhole(targetMs, elapsed) == targetMs - elapsed

\* executeDelay: Math.min(chunkSize, remaining)
SleepTime(targetMs, elapsed) ==
    IF chunkSize < targetMs - elapsed THEN chunkSize ELSE targetMs - elapsed

\* MAX_BODY_SIZE, scaled from 10240 to the bodies followed here
MAX_BODY_SIZE == 3

\* A body text is a sequence of characters, each one UTF-16 code unit: the
\* digit 1, the double quote, and the euro sign, which takes three bytes in
\* UTF-8 where the other two take one.
Chars == {"1", "quote", "euro"}
Bytes(c) == IF c = "euro" THEN 3 ELSE 1

\* the bodies a server sends: texts of up to MaxText characters
MaxText == 4
Texts == UNION {[1..n -> Chars] : n \in 0..MaxText}

\* Buffer.byteLength(text, 'utf8')
RECURSIVE byteLength(_)
byteLength(text) ==
    IF text = <<>> THEN 0 ELSE Bytes(Head(text)) + byteLength(Tail(text))

\* text.slice(0, end): the first `end` code units
slice(text, end) == SubSeq(text, 1, IF end < Len(text) THEN end ELSE Len(text))

\* JSON.parse(text) does not throw: a number (digits), or a string (a quote,
\* characters other than the quote, a quote)
IsJson(text) ==
    \/ Len(text) > 0 /\ \A i \in 1..Len(text) : text[i] = "1"
    \/ /\ Len(text) >= 2
       /\ text[1] = "quote" /\ text[Len(text)] = "quote"
       /\ \A i \in 2..(Len(text) - 1) : text[i] # "quote"

\* a body of the result: JSON.parse(text), text, or text + '... [truncated]'
Parsed(text)    == [parsed |-> TRUE, text |-> text, marker |-> FALSE]
Plain(text)     == [parsed |-> FALSE, text |-> text, marker |-> FALSE]
Truncated(text) == [parsed |-> FALSE, text |-> text, marker |-> TRUE]

\* contentType.includes('application/json')
ContentTypes == {"application/json", "text/plain"}
IsJsonType(contentType) == contentType = "application/json"

Statuses == {200, 404}

\* executeHttpGetJson from the end of the fetch to the return of the try
\* block: response.text() gave `text`
readBody(status, contentType, text) ==
    LET bytesReturned == byteLength(text)
        truncatedText == slice(text, MAX_BODY_SIZE)
    IN  IF bytesReturned > MAX_BODY_SIZE
        THEN [status |-> status,
              body |-> IF IsJsonType(contentType) /\ IsJson(truncatedText)
                       THEN Parsed(truncatedText)
                       ELSE Truncated(truncatedText),
              truncated |-> TRUE, bytesReturned |-> bytesReturned, error |-> "null"]
        ELSE [status |-> status,
              body |-> IF IsJsonType(contentType) /\ IsJson(text)
                       THEN Parsed(text)
                       ELSE Plain(text),
              truncated |-> FALSE, bytesReturned |-> bytesReturned, error |-> "null"]

\* the catch block of executeHttpGetJson
HttpFailure(errorMessage) ==
    [status |-> 0, body |-> "null", truncated |-> FALSE, bytesReturned |-> 0,
     error |-> errorMessage]

\* No executor call is followed.  kind: the executor; pc: the await the call
\* is at ("sleep", "headers" for the fetch, "body" for response.text()) or
\* "returned"; clock: milliseconds since startTime; elapsed, sleepTime: the
\* locals of executeDelay; chunks: sleeps that ended; progress: calls of
\* onProgress; timeout: the abort timer is set; status, contentType: of the
\* response; text: what response.text() gave
NoRun ==
    [kind |-> "none", pc |-> "idle", targetMs |-> 0, clock |-> 0, elapsed |-> 0,
     sleepTime |-> 0, chunks |-> 0, progress |-> 0, timeout |-> FALSE,
     status |-> 0, contentType |-> "", text |-> <<>>, result |-> NoValue]

\* --------------------------------------------------------------- actions
\* fetchWithRetry(url, options, retries = 3, delay = 1000)
Retries == 3
Delay   == 1000

\* agent-id.txt of an agent's data directory: absent, or the n-th identifier
\* generated in that directory (uuidv4 never gives the same one twice)
NoFile == 0
NewId(idFile) == idFile + 1

\* fault: an identifier is generated and written at every start
loadOrCreateAgentIdNoLookup(idFile) ==
    [agentId |-> NewId(idFile), idFile |-> NewId(idFile)]

\* loadOrCreateAgentId: the identifier the process runs under and the file
\* as the call leaves it
loadOrCreateAgentId(idFile) ==
    IF idFile # NoFile
    THEN [agentId |-> idFile, idFile |-> idFile]
    ELSE [agentId |-> NewId(idFile), idFile |-> NewId(idFile)]

\* no agent process runs, nothing has been executed.  file: agent-id.txt of
\* the data directory, which outlives the process; id: config.agentId, the
\* identifier the server knows the process of directory a by.  running: the commands
\* whose executeCommand call has not ended; timers: the commands whose
\* heartbeatInterval is set; result: what executeCommand gave, while
\* executeAndReport reports it; wait: the sleep before the current attempt of
\* fetchWithRetry, delay: its next sleep
StoppedAgent ==
    [pc |-> "down", file |-> NoFile, id |-> NoFile,
     cmd |-> NoCmd, try |-> 0, held |-> NoCmd,
     running |-> {}, timers |-> {}, result |-> NoOutcome, wait |-> 0, delay |-> Delay]

Init ==
    /\ commands = [c \in {} |-> 0]
    /\ heartbeats = [a \in {} |-> 0]
    /\ now = 0
    /\ resp = Response("start", NoAgent, NoCmd, "", 0, FALSE, NoCommand)
    /\ agent = [a \in Agents |-> StoppedAgent]
    /\ executed = [c \in CmdIds |-> 0]
    /\ assigned = [c \in CmdIds |-> 0]
    /\ faults = [crashes |-> 0, lost |-> 0, restarts |-> 0]
    /\ run = NoRun

\* Date.now() advances
Tick ==
    /\ now < MaxTime
    /\ now' = now + 1
    /\ UNCHANGED <<commands, heartbeats, resp, agentVars>>

\* createCommand(id, type, payload)
NewRow(type, payload) ==
    [ type         |-> type,
      payload      |-> JSONstringify(payload),
      status       |-> "PENDING",
      result       |-> NoText,
      agent_id     |-> NoAgent,
      created_at   |-> now,
      updated_at   |-> now,
      started_at   |-> NoTime,
      completed_at |-> NoTime ]

\* POST /commands.  uuidv4() gives an id no command has; the code never
\* compares ids, so the next unused one stands for it.
CommandsRoute(observed, bodies) ==
    /\ \E body \in bodies :
        IF body.type = "missing" \/ body.payload = "missing"
           \/ ~isValidCommandType(body.type) \/ validatePayload(body.type, body.payload)
        THEN /\ Reply(observed, CreateResponse(body, NoCmd, 400))
             /\ UNCHANGED <<commands, heartbeats, now>>
        ELSE LET id == Cardinality(Ids) + 1
             IN  /\ id \in CmdIds
                 /\ commands' = [c \in Ids \cup {id} |->
                                   IF c = id THEN NewRow(body.type, body.payload) ELSE commands[c]]
                 /\ Reply(observed, CreateResponse(body, id, 201))
                 /\ UNCHANGED <<heartbeats, now>>
    /\ UNCHANGED agentVars

\* POST /agent/fetch -> fetchNextCommand(agentId): the responses it can give.
\* ok marks a new assignment.
FetchResponses(agentId) ==
    IF RunningOf(agentId) # {}
    THEN {Response("fetch", agentId, NoCmd, "", 200, FALSE,
                   <<rowToCommand(id, commands[id])>>) : id \in RunningOf(agentId)}
    ELSE IF NextPending = {}
    THEN {Response("fetch", agentId, NoCmd, "", 200, FALSE, NoCommand)}
    ELSE {Response("fetch", agentId, NoCmd, "", 200, TRUE,
                   <<AssignedCommand(id, commands[id], agentId)>>) : id \in NextPending}

\* the writes of the transaction that answers with r
FetchHandler(agentId, r) ==
    IF r.ok
    THEN LET id == r.command[1].id
         IN  /\ commands' = [commands EXCEPT ![id] = AssignRow(@, agentId)]
             /\ heartbeats' = updateHeartbeat(heartbeats, agentId, id)
             /\ UNCHANGED now
    ELSE UNCHANGED <<commands, heartbeats, now>>

FetchRoute(observed) ==
    /\ \E agentId \in Agents :
          \E r \in FetchResponses(agentId) :
              FetchHandler(agentId, r) /\ Reply(observed, r)
    /\ UNCHANGED agentVars

\* the reports an agent sends: COMPLETED with the executor's result,
\* FAILED with a null result and an error message
Completed == <<"COMPLETED", "res", NoError>>
Failed    == <<"FAILED", "null", "E">>
Reports   == {Completed, Failed}

\* POST /agent/result -> completeCommand(commandId, agentId, status, result, error)
ResultHandler(agentId, commandId, report) ==
    LET status == report[1]
        result == report[2]
        error  == report[3]
    IN  IF OwnsRunning(commandId, agentId)
        THEN /\ commands' = [commands EXCEPT
                               ![commandId] = CompleteRow(@, status, result, error)]
             /\ heartbeats' = updateHeartbeat(heartbeats, agentId, NoCmd)
             /\ UNCHANGED now
        ELSE UNCHANGED <<commands, heartbeats, now>>

\* its response: ok is what completeCommand returned, code the HTTP status
\* after the idempotency re-read
ResultResponse(agentId, commandId, status) ==
    IF OwnsRunning(commandId, agentId)
    THEN Response("result", agentId, commandId, status, 200, TRUE, NoCommand)
    ELSE Response("result", agentId, commandId, status,
                  IF AlreadyCompleted(commandId) THEN 200 ELSE 409, FALSE, NoCommand)

ResultRoute(observed) ==
    /\ \E agentId \in Agents, commandId \in CmdIds, report \in Reports :
          /\ ResultHandler(agentId, commandId, report)
          /\ Reply(observed, ResultResponse(agentId, commandId, report[1]))
    /\ UNCHANGED agentVars

\* POST /agent/sync -> getUnfinishedCommand(agentId): the responses it can give
SyncResponses(agentId) ==
    IF RunningOf(agentId) # {}
    THEN {Response("sync", agentId, NoCmd, "", 200, TRUE,
                   <<rowToCommand(id, commands[id])>>) : id \in RunningOf(agentId)}
    ELSE {Response("sync", agentId, NoCmd, "", 200, TRUE, NoCommand)}

SyncRoute(observed) ==
    /\ \E agentId \in Agents : \E r \in SyncResponses(agentId) : Reply(observed, r)
    /\ UNCHANGED <<commands, heartbeats, now, agentVars>>

\* POST /agent/heartbeat -> updateHeartbeat(agentId, commandId)
HeartbeatHandler(agentId, commandId) ==
    /\ heartbeats' = updateHeartbeat(heartbeats, agentId, commandId)
    /\ UNCHANGED <<commands, now>>

HeartbeatRoute(observed) ==
    /\ \E agentId \in Agents, commandId \in CmdIds \cup {NoCmd} :
          /\ HeartbeatHandler(agentId, commandId)
          /\ Reply(observed, Response("heartbeat", agentId, commandId, "", 200, TRUE, NoCommand))
    /\ UNCHANGED agentVars

\* the staleChecker interval -> checkStaleCommands(COMMAND_TIMEOUT), one transaction
StaleCheck(observed) ==
    LET stale == StaleAgents(CommandTimeout)
        reset == {id \in Ids : commands[id].agent_id \in stale /\ commands[id].status = "RUNNING"}
    IN  /\ commands' = [id \in Ids |-> IF id \in reset THEN ResetRow(commands[id]) ELSE commands[id]]
        /\ heartbeats' = [a \in DOMAIN heartbeats |->
                            IF a \in stale
                            THEN [heartbeats[a] EXCEPT !.current_command_id = NoCmd]
                            ELSE heartbeats[a]]
        /\ Reply(observed, Response("stale", NoAgent, Cardinality(reset), "", 0, TRUE, NoCommand))
        /\ UNCHANGED <<now, agentVars>>

\* initialize() -> recoverFromCrash(), on the tables the killed process left
recoverFromCrash(observed) ==
    /\ commands' = [id \in Ids |->
                      IF id \in CrashedRunning THEN ResetRow(commands[id]) ELSE commands[id]]
    /\ Reply(observed, Response("restart", NoAgent, NoCmd, "", 0, TRUE, NoCommand))
    /\ UNCHANGED <<heartbeats, now>>

\* the server process is killed and started again
ServerRestart(observed) ==
    /\ recoverFromCrash(observed)
    /\ UNCHANGED agentVars

\* the store under every interleaving of requests, timer ticks and restarts
Next ==
    \/ Tick
    \/ CommandsRoute(FALSE, Bodies)
    \/ FetchRoute(FALSE)
    \/ ResultRoute(FALSE)
    \/ SyncRoute(FALSE)
    \/ HeartbeatRoute(FALSE)
    \/ StaleCheck(FALSE)
    \/ ServerRestart(FALSE)

Spec == Init /\ [][Next]_vars

\* the same, with every response observed
ApiNext ==
    \/ Tick
    \/ CommandsRoute(TRUE, ApiBodies)
    \/ FetchRoute(TRUE)
    \/ ResultRoute(TRUE)
    \/ SyncRoute(TRUE)
    \/ HeartbeatRoute(TRUE)
    \/ StaleCheck(TRUE)
    \/ ServerRestart(TRUE)

ApiSpec == Init /\ [][ApiNext]_vars

\* the clients of POST /commands: every request body, each answer observed,
\* while agents fetch and report
SubmitNext ==
    \/ Tick
    \/ CommandsRoute(TRUE, Bodies)
    \/ FetchRoute(FALSE)
    \/ ResultRoute(FALSE)

SubmitSpec == Init /\ [][SubmitNext]_vars

\* ------------------------------------------------------------ the agents
\* Agent.start(): handleUnfinishedCommand(), then pollLoop().  agent[a].pc is
\* the await the process is at:
\*   "down"     no process (not started yet, or exited)
\*   "sync"     syncWithServer
\*   "recover"  reportResult(unfinished, FAILED) of handleUnfinishedCommand
\*   "poll"     top of a pollLoop cycle, in or after sleep(pollInterval)
\*   "fetch"    fetchNextCommand
\*   "exec"     executeAndReport entered, executor not called yet
\*   "running"  inside executeCommand, the heartbeat interval set
\*   "report"   reportResult(command, COMPLETED)
\* cmd is currentCommand (the unfinished command while recovering), try the
\* loop index i of fetchWithRetry, held the command the server had RUNNING
\* for this identity when the process started.

\* faults a run may contain
MaxCrashes  == 1
MaxLost     == 3
MaxRestarts == 1
\* executed and assigned count up to MaxRuns and stay there
MaxRuns     == 2

AgentBodies == {Body("DELAY", "ms:500")}

\* commands the clients submit while the agents are followed
MaxSubmitted == 1

\* a client submits a command
Submit(limit) ==
    /\ Cardinality(Ids) < limit
    /\ CommandsRoute(FALSE, AgentBodies)

\* commands of both types, one of them with a number JSON cannot store
ExecBodies ==
    {Body("DELAY", "ms:500"), Body("DELAY", "ms:1e999"), Body("HTTP_GET_JSON", "url:ok")}

SubmitExec ==
    /\ Cardinality(Ids) < MaxCmds
    /\ CommandsRoute(FALSE, ExecBodies)

Bump(count, id) == [count EXCEPT ![id] = IF @ < MaxRuns THEN @ + 1 ELSE @]

\* fault: fetchWithRetry sleeps the same delay before every retry
RetryNoBackoff(me, giveUp) ==
    IF me.try = Retries - 1
    THEN giveUp
    ELSE [me EXCEPT !.try = @ + 1, !.wait = me.delay]

\* fault: the process exits when the last attempt of fetchWithRetry fails
RetryOrExit(me, giveUp) ==
    IF me.try = Retries - 1
    THEN StoppedAgent
    ELSE [me EXCEPT !.try = @ + 1, !.wait = me.delay, !.delay = @ * 2]

\* the catch of fetchWithRetry: the last attempt throws to the caller, who goes
\* on as `giveUp`; an earlier one is retried
Retry(me, giveUp) ==
    IF me.try = Retries - 1
    THEN giveUp
    ELSE [me EXCEPT !.try = @ + 1, !.wait = me.delay, !.delay = @ * 2]

\* a call of fetchWithRetry begins: i = 0, delay = 1000, nothing slept yet
FirstAttempt(me) == [me EXCEPT !.try = 0, !.wait = 0, !.delay = Delay]

Lose == /\ faults.lost < MaxLost
        /\ faults' = [faults EXCEPT !.lost = @ + 1]

\* a process is started: loadConfig, then start()
Start(a) ==
    /\ agent[a].pc = "down"
    /\ agent' = [agent EXCEPT ![a] =
                   [StoppedAgent EXCEPT
                       !.pc = "sync",
                       !.file = loadOrCreateAgentId(agent[a].file).idFile,
                       !.id = loadOrCreateAgentId(agent[a].file).agentId,
                       !.held = IF \E id \in Ids : OwnsRunning(id, a)
                                THEN CHOOSE id \in Ids : OwnsRunning(id, a)
                                ELSE NoCmd]]
    /\ UNCHANGED <<commands, heartbeats, now, resp, run, executed, assigned, faults>>

\* process.exit(1) of kill-after and maybeSimulateCrash, or a kill from outside
Crash(a) ==
    /\ agent[a].pc # "down"
    /\ faults.crashes < MaxCrashes
    /\ faults' = [faults EXCEPT !.crashes = @ + 1]
    /\ agent' = [agent EXCEPT ![a] = [StoppedAgent EXCEPT !.file = agent[a].file]]
    /\ UNCHANGED <<commands, heartbeats, now, resp, run, executed, assigned>>

\* fault: start() goes on to pollLoop without the FAILED report
AfterSyncNoReport(me, unfinishedCommand) ==
    FirstAttempt([me EXCEPT !.pc = "poll"])

\* handleUnfinishedCommand, after syncWithServer returned
AfterSync(me, unfinishedCommand) ==
    IF unfinishedCommand # NoCommand
    THEN FirstAttempt([me EXCEPT !.pc = "recover", !.cmd = unfinishedCommand[1].id])
    ELSE FirstAttempt([me EXCEPT !.pc = "poll"])

SyncDelivered(a) ==
    /\ agent[a].pc = "sync"
    /\ \E r \in SyncResponses(a) : agent' = [agent EXCEPT ![a] = AfterSync(@, r.command)]
    /\ UNCHANGED <<commands, heartbeats, now, resp, run, executed, assigned, faults>>

\* the request or its response is lost (the server only reads)
SyncLost(a) ==
    /\ agent[a].pc = "sync"
    /\ Lose
    /\ agent' = [agent EXCEPT ![a] = Retry(@, AfterSync(@, NoCommand))]
    /\ UNCHANGED <<commands, heartbeats, now, resp, run, executed, assigned>>

\* after reportResult, whatever it returned: pollLoop (re-)enters its cycle
AfterReport(me) ==
    FirstAttempt([me EXCEPT !.pc = "poll", !.cmd = NoCmd, !.result = NoOutcome])

RecoverDelivered(a) ==
    /\ agent[a].pc = "recover"
    /\ ResultHandler(a, agent[a].cmd, Failed)
    /\ agent' = [agent EXCEPT ![a] = AfterReport(@)]
    /\ UNCHANGED <<resp, run, executed, assigned, faults>>

\* the request is lost before the server, or the response after it
RecoverLost(a) ==
    /\ agent[a].pc = "recover"
    /\ Lose
    /\ \/ UNCHANGED <<commands, heartbeats, now>>
       \/ ResultHandler(a, agent[a].cmd, Failed)
    /\ agent' = [agent EXCEPT ![a] = Retry(@, AfterReport(@))]
    /\ UNCHANGED <<resp, run, executed, assigned>>

\* pollLoop: pollCount++, sendHeartbeat(currentCommand?.id), one attempt
PollDelivered(a) ==
    /\ agent[a].pc = "poll"
    /\ HeartbeatHandler(a, agent[a].cmd)
    /\ agent' = [agent EXCEPT ![a].pc = "fetch"]
    /\ UNCHANGED <<resp, run, executed, assigned, faults>>

\* "Heartbeat failures are not critical"
PollLost(a) ==
    /\ agent[a].pc = "poll"
    /\ Lose
    /\ agent' = [agent EXCEPT ![a].pc = "fetch"]
    /\ UNCHANGED <<commands, heartbeats, now, resp, run, executed, assigned>>

\* fault: pollLoop calls executeAndReport without await and goes on polling
AfterFetchNoAwait(me, command) ==
    IF command # NoCommand
    THEN FirstAttempt([me EXCEPT !.pc = "poll",
                                 !.running = @ \cup {command[1].id}])
    ELSE FirstAttempt([me EXCEPT !.pc = "poll"])

\* pollLoop, after fetchNextCommand returned
AfterFetch(me, command) ==
    IF command # NoCommand
    THEN FirstAttempt([me EXCEPT !.pc = "exec", !.cmd = command[1].id])
    ELSE FirstAttempt([me EXCEPT !.pc = "poll"])

\* a fetch response with ok set is a new assignment
Assigned(r) ==
    assigned' = IF r.ok THEN Bump(assigned, r.command[1].id) ELSE assigned

FetchDelivered(a) ==
    /\ agent[a].pc = "fetch"
    /\ \E r \in FetchResponses(a) :
          /\ FetchHandler(a, r)
          /\ agent' = [agent EXCEPT ![a] = AfterFetch(@, r.command)]
          /\ Assigned(r)
    /\ UNCHANGED <<resp, run, executed, faults>>

FetchLost(a) ==
    /\ agent[a].pc = "fetch"
    /\ Lose
    /\ \/ UNCHANGED <<commands, heartbeats, now, assigned>>
       \/ \E r \in FetchResponses(a) : FetchHandler(a, r) /\ Assigned(r)
    /\ agent' = [agent EXCEPT ![a] = Retry(@, AfterFetch(@, NoCommand))]
    /\ UNCHANGED <<resp, run, executed>>

\* executeAndReport: setInterval(heartbeat), executeCommand(command) is called
Execute(a) ==
    /\ agent[a].pc = "exec"
    /\ agent' = [agent EXCEPT ![a].pc = "running",
                              ![a].running = @ \cup {agent[a].cmd},
                              ![a].timers = @ \cup {agent[a].cmd}]
    /\ executed' = Bump(executed, agent[a].cmd)
    /\ UNCHANGED <<commands, heartbeats, now, resp, run, assigned, faults>>

\* an interval that is set fires: sendHeartbeat(config, command.id)
TimerHeartbeat(a) ==
    /\ \E c \in agent[a].timers : HeartbeatHandler(a, c)
    /\ UNCHANGED <<resp, agentVars>>

\* executeAndReport, when the await of executeCommand ends: clearInterval is
\* the statement after it in the try block, the catch block has none
AfterExecute(me, outcome) ==
    [me EXCEPT !.pc = "report", !.result = outcome,
               !.running = @ \ {me.cmd},
               !.timers = IF outcome.threw THEN @ ELSE @ \ {me.cmd}]

\* executeCommand returns its result or throws
Finish(a) ==
    /\ agent[a].pc = "running"
    /\ \E outcome \in executeCommand(rowToCommand(agent[a].cmd, commands[agent[a].cmd])) :
          agent' = [agent EXCEPT ![a] = AfterExecute(@, outcome)]
    /\ UNCHANGED <<commands, heartbeats, now, resp, run, executed, assigned, faults>>

\* the result of a report as the server's JSON conversions see it
ResultValue(value) == IF value = NoValue THEN "null" ELSE "res"

\* fault: the catch block reports COMPLETED like the try block
ReportAlwaysCompleted(outcome) ==
    <<"COMPLETED", ResultValue(outcome.value), NoError>>

\* the arguments executeAndReport gives reportResult: (COMPLETED, result) in
\* the try block, (FAILED, null, errorMessage) in the catch block
Report(outcome) ==
    IF outcome.threw
    THEN <<"FAILED", "null", outcome.message>>
    ELSE <<"COMPLETED", ResultValue(outcome.value), NoError>>

ReportDelivered(a) ==
    /\ agent[a].pc = "report"
    /\ ResultHandler(a, agent[a].cmd, Report(agent[a].result))
    /\ agent' = [agent EXCEPT ![a] = AfterReport(@)]
    /\ UNCHANGED <<resp, run, executed, assigned, faults>>

ReportLost(a) ==
    /\ agent[a].pc = "report"
    /\ Lose
    /\ \/ UNCHANGED <<commands, heartbeats, now>>
       \/ ResultHandler(a, agent[a].cmd, Report(agent[a].result))
    /\ agent' = [agent EXCEPT ![a] = Retry(@, AfterReport(@))]
    /\ UNCHANGED <<resp, run, executed, assigned>>

\* One unit of the coarse clock (more than COMMAND_TIMEOUT) passes.  The
\* awaits of a request take seconds, so the clock moves only while every
\* process sleeps between polls, sits in the executor or is down; an
\* executing agent's 5 s interval has then sent heartbeats, the last of them
\* within the timeout.  Timestamps are kept relative to the window 0..MaxTime:
\* at its end the window slides and the oldest two instants fall together.
Age(t) == IF now < MaxTime \/ t <= 0 THEN t ELSE t - 1

AgentTick ==
    /\ \A a \in Agents : agent[a].pc \in {"down", "poll", "running"}
    /\ now' = IF now < MaxTime THEN now + 1 ELSE now
    /\ commands' = [id \in Ids |->
                      [commands[id] EXCEPT !.created_at = Age(@), !.updated_at = Age(@),
                                           !.started_at = Age(@), !.completed_at = Age(@)]]
    /\ heartbeats' =
          [a \in DOMAIN heartbeats \cup {b \in Agents : agent[b].pc = "running"} |->
              IF agent[a].pc = "running"
              THEN [last_heartbeat |-> now', current_command_id |-> agent[a].cmd]
              ELSE [heartbeats[a] EXCEPT !.last_heartbeat = Age(@)]]
    /\ UNCHANGED <<resp, agentVars>>

\* the server process is killed and started again while agents run
AgentServerRestart ==
    /\ faults.restarts < MaxRestarts
    /\ faults' = [faults EXCEPT !.restarts = @ + 1]
    /\ recoverFromCrash(FALSE)
    /\ UNCHANGED <<agent, executed, assigned, run>>

\* a step of a running agent process
AgentStep(a) ==
    \/ SyncDelivered(a)
    \/ SyncLost(a)
    \/ RecoverDelivered(a)
    \/ RecoverLost(a)
    \/ PollDelivered(a)
    \/ PollLost(a)
    \/ FetchDelivered(a)
    \/ FetchLost(a)
    \/ Execute(a)
    \/ TimerHeartbeat(a)
    \/ Finish(a)
    \/ ReportDelivered(a)
    \/ ReportLost(a)

\* server, clients and agents, with crashes, lost messages and restarts
AgentNext ==
    \/ AgentTick
    \/ Submit(MaxSubmitted)
    \/ StaleCheck(FALSE)
    \/ AgentServerRestart
    \/ \E a \in Agents : Start(a)
    \/ \E a \in Agents : Crash(a)
    \/ \E a \in Agents : AgentStep(a)

AgentSpec == Init /\ [][AgentNext]_vars

\* time passes (whenever the agents let the coarse clock move, again and
\* again), the stale checker's interval keeps firing, every running process
\* goes on; a crashed a2 is started again, a crashed a1 may stay down
Fairness ==
    /\ SF_vars(AgentTick)
    /\ WF_vars(StaleCheck(FALSE))
    /\ \A a \in Agents : WF_vars(AgentStep(a))
    /\ WF_vars(Start("a2"))

FairAgentSpec == AgentSpec /\ Fairness

\* one agent, nothing crashes, nothing is lost, the server stays up and the
\* stale checker finds nothing
HappyAgent == "a1"

HappyStep(a) ==
    \/ SyncDelivered(a)
    \/ PollDelivered(a)
    \/ FetchDelivered(a)
    \/ Execute(a)
    \/ Finish(a)
    \/ ReportDelivered(a)

HappyNext ==
    \/ AgentTick
    \/ Submit(MaxCmds)
    \/ Start(HappyAgent)
    \/ HappyStep(HappyAgent)

\* the process is started and goes on
HappySpec ==
    /\ Init /\ [][HappyNext]_vars
    /\ WF_vars(Start(HappyAgent))
    /\ WF_vars(HappyStep(HappyAgent))

\* one agent and commands of every kind: nothing crashes, nothing is lost,
\* the executors return or throw
ExecStep(a) ==
    \/ SyncDelivered(a)
    \/ PollDelivered(a)
    \/ FetchDelivered(a)
    \/ Execute(a)
    \/ TimerHeartbeat(a)
    \/ Finish(a)
    \/ ReportDelivered(a)

ExecNext ==
    \/ AgentTick
    \/ SubmitExec
    \/ Start(HappyAgent)
    \/ ExecStep(HappyAgent)

ExecSpec == Init /\ [][ExecNext]_vars

\* ------------------------------------------------- one executor call alone
\* the ms of the DELAY payloads that reach an agent: positive numbers
DelayMs == {1, 999, 1000, 1001, 2000, 2001}

\* setTimeout fires about when asked: a millisecond early, on time or late
Jitter == {-1, 0, 1}

\* executeDelay at its loop test: another sleep, or the return
DelayLoop(r) ==
    IF r.elapsed < r.targetMs
    THEN [r EXCEPT !.pc = "sleep", !.sleepTime = SleepTime(r.targetMs, r.elapsed)]
    ELSE [r EXCEPT !.pc = "returned", !.sleepTime = 0,
                   !.result = [ok |-> TRUE, tookMs |-> r.clock]]

\* executeDelay(payload, onProgress) is called
DelayCall ==
    /\ run.pc \in {"idle", "returned"}
    /\ \E ms \in DelayMs :
          run' = DelayLoop([NoRun EXCEPT !.kind = "DELAY", !.targetMs = ms])
    /\ UNCHANGED <<commands, heartbeats, now, resp, agent, executed, assigned, faults>>

\* await sleep(sleepTime) ends, at least a millisecond after it began:
\* elapsed = Date.now() - startTime, onProgress(), the loop test
DelayWake ==
    /\ run.kind = "DELAY" /\ run.pc = "sleep"
    /\ \E j \in Jitter :
          LET slept == IF run.sleepTime + j < 1 THEN 1 ELSE run.sleepTime + j
          IN  run' = DelayLoop([run EXCEPT !.clock = @ + slept,
                                           !.elapsed = run.clock + slept,
                                           !.chunks = @ + 1,
                                           !.progress = @ + 1])
    /\ UNCHANGED <<commands, heartbeats, now, resp, agent, executed, assigned, faults>>

\* executeHttpGetJson(payload) is called: the abort timer is set, fetch sent
HttpCall ==
    /\ run.pc \in {"idle", "returned"}
    /\ run' = [NoRun EXCEPT !.kind = "HTTP_GET_JSON", !.pc = "headers", !.timeout = TRUE]
    /\ UNCHANGED <<commands, heartbeats, now, resp, agent, executed, assigned, faults>>

\* fetch rejects (no route, connection refused): the catch block returns
FetchRejects ==
    /\ run.kind = "HTTP_GET_JSON" /\ run.pc = "headers"
    /\ run' = [run EXCEPT !.pc = "returned", !.result = HttpFailure("refused")]
    /\ UNCHANGED <<commands, heartbeats, now, resp, agent, executed, assigned, faults>>

\* the abort timer fires after 30000 ms: controller.abort() makes the
\* pending await reject, the catch block returns
Deadline ==
    /\ run.kind = "HTTP_GET_JSON" /\ run.pc \in {"headers", "body"}
    /\ run.timeout
    /\ run' = [run EXCEPT !.pc = "returned", !.timeout = FALSE,
                          !.result = HttpFailure("deadline")]
    /\ UNCHANGED <<commands, heartbeats, now, resp, agent, executed, assigned, faults>>

\* the response's status line and headers arrive: fetch resolves,
\* clearTimeout(timeout), response.text() is awaited
HeadersArrive ==
    /\ run.kind = "HTTP_GET_JSON" /\ run.pc = "headers"
    /\ \E status \in Statuses, contentType \in ContentTypes :
          run' = [run EXCEPT !.pc = "body", !.timeout = FALSE,
                             !.status = status, !.contentType = contentType]
    /\ UNCHANGED <<commands, heartbeats, now, resp, agent, executed, assigned, faults>>

\* the body has arrived whole: response.text() resolves
BodyArrives ==
    /\ run.kind = "HTTP_GET_JSON" /\ run.pc = "body"
    /\ \E text \in Texts :
          run' = [run EXCEPT !.pc = "returned", !.text = text,
                             !.result = readBody(run.status, run.contentType, text)]
    /\ UNCHANGED <<commands, heartbeats, now, resp, agent, executed, assigned, faults>>

\* the connection breaks while the body is read: response.text() rejects
BodyFails ==
    /\ run.kind = "HTTP_GET_JSON" /\ run.pc = "body"
    /\ run' = [run EXCEPT !.pc = "returned", !.result = HttpFailure("bodyError")]
    /\ UNCHANGED <<commands, heartbeats, now, resp, agent, executed, assigned, faults>>

ExecutorNext ==
    \/ DelayCall
    \/ DelayWake
    \/ HttpCall
    \/ FetchRejects
    \/ Deadline
    \/ HeadersArrive
    \/ BodyArrives
    \/ BodyFails

ExecutorSpec == Init /\ [][ExecutorNext]_vars

\* timers that are set fire; what the network delivers, and when, is not the
\* program's to decide
FairExecutorSpec ==
    /\ ExecutorSpec
    /\ WF_vars(DelayWake)
    /\ WF_vars(Deadline)

\* ------------------------------------------------------------ properties
IsRunning(id)  == commands[id].status = "RUNNING"
IsPending(id)  == commands[id].status = "PENDING"
IsTerminal(id) == commands[id].status \in Terminal

\* C1: every agent owns at most one command with status RUNNING.
SingleAssignment ==
    \A a \in Agents :
        Cardinality({id \in DOMAIN commands :
                        IsRunning(id) /\ commands[id].agent_id = a}) <= 1

\* an agent runs a command while another command waits PENDING
SingleAssignmentWitness ==
    \E a \in Agents, c, d \in DOMAIN commands :
        /\ IsRunning(c) /\ commands[c].agent_id = a
        /\ IsPending(d)
        /\ heartbeats[a].last_heartbeat >= commands[d].created_at

\* C2: once a command is COMPLETED or FAILED, no step changes its status,
\* result, owner or completed_at.
TerminalImmutable ==
    [][\A id \in DOMAIN commands :
          IsTerminal(id) =>
              /\ id \in DOMAIN commands'
              /\ commands'[id].status = commands[id].status
              /\ commands'[id].result = commands[id].result
              /\ commands'[id].agent_id = commands[id].agent_id
              /\ commands'[id].completed_at = commands[id].completed_at]_vars

\* a terminal command whose owner has gone on to run another command
TerminalImmutableWitness ==
    \E c, d \in DOMAIN commands :
        /\ IsTerminal(c) /\ IsRunning(d)
        /\ commands[d].agent_id = commands[c].agent_id
        /\ commands[d].started_at > commands[c].completed_at

\* C3 as stated: status = RUNNING iff owner and started_at are both non-null
\* (so a COMPLETED or FAILED command has no owner).
OwnershipAgreementAsStated ==
    \A id \in DOMAIN commands :
        IsRunning(id) <=>
            (commands[id].agent_id # NoAgent /\ commands[id].started_at # NoTime)

\* C3: owner and started_at are non-null exactly when the command is not
\* PENDING: a RUNNING command has both, a PENDING command has neither, and a
\* COMPLETED or FAILED command keeps the ones it had while RUNNING.
OwnershipAgreement ==
    \A id \in DOMAIN commands :
        /\ IsPending(id) <=> commands[id].agent_id = NoAgent
        /\ IsPending(id) <=> commands[id].started_at = NoTime
        /\ commands[id].agent_id # NoAgent => commands[id].agent_id \in Agents

\* a terminal command that names its owner, beside one reset to PENDING
OwnershipAgreementWitness ==
    \E c, d \in DOMAIN commands :
        /\ IsTerminal(c) /\ commands[c].agent_id \in Agents
        /\ commands[c].started_at # NoTime
        /\ IsPending(d) /\ commands[d].updated_at > commands[d].created_at

\* C4: a command with a non-null result is COMPLETED or FAILED.
ResultGating ==
    \A id \in DOMAIN commands :
        (commands[id].result # NoText
           \/ rowToCommand(id, commands[id]).result # "null") => IsTerminal(id)

\* a command reset to PENDING beside a terminal command carrying a result
ResultGatingWitness ==
    \E c, d \in DOMAIN commands :
        /\ IsTerminal(c) /\ commands[c].result # NoText
        /\ ~IsTerminal(d) /\ commands[d].updated_at > commands[d].created_at
        /\ commands[d].result = NoText

\* C5: a RUNNING command with owner A is the current_command of A's
\* liveness record.
HeartbeatCorrespondence ==
    \A id \in DOMAIN commands :
        IsRunning(id) =>
            /\ commands[id].agent_id \in DOMAIN heartbeats
            /\ heartbeats[commands[id].agent_id].current_command_id = id

\* C6: a command that goes from PENDING to RUNNING had the smallest
\* created_at among the commands PENDING before the step.
FifoAssignment ==
    [][\A id \in DOMAIN commands :
          (IsPending(id) /\ commands'[id].status = "RUNNING") =>
              \A o \in DOMAIN commands :
                  IsPending(o) => commands[id].created_at <= commands[o].created_at]_vars

\* the older command was assigned while the younger one was already waiting
FifoAssignmentWitness ==
    \E c, d \in DOMAIN commands :
        /\ commands[c].created_at < commands[d].created_at
        /\ IsRunning(c) /\ commands[c].started_at >= commands[d].created_at
        /\ IsPending(d) /\ commands[d].updated_at = commands[d].created_at

\* C7: a fetch that follows a fetch by the same agent returns the same
\* Command, field by field, and changes neither table.
FetchIdempotent ==
    [][(resp.op = "fetch" /\ resp'.op = "fetch" /\ resp'.agentId = resp.agentId) =>
          /\ resp'.command = resp.command
          /\ commands' = commands
          /\ heartbeats' = heartbeats]_vars

\* a fetch answered with the command the agent already runs, assigned earlier
FetchIdempotentWitness ==
    /\ resp.op = "fetch" /\ ~resp.ok /\ resp.command # NoCommand
    /\ resp.command[1].createdAt < resp.command[1].startedAt
    /\ resp.command[1].updatedAt = resp.command[1].startedAt

\* C8: no step takes a RUNNING command from its owner for another agent; a
\* command leaves PENDING only by a fetch, for the fetching agent alone; and
\* the command a fetch returns is stored RUNNING under the fetching agent.
ExclusiveAssignment ==
    [][/\ \A id \in DOMAIN commands :
            IsRunning(id) =>
                commands'[id].agent_id \in {commands[id].agent_id, NoAgent}
       /\ \A id \in DOMAIN commands :
            (IsPending(id) /\ ~(commands'[id].status = "PENDING")) =>
                /\ resp'.op = "fetch" /\ resp'.ok
                /\ commands'[id].status = "RUNNING"
                /\ commands'[id].agent_id = resp'.agentId
                /\ \A o \in DOMAIN commands \ {id} : commands'[o] = commands[o]
       /\ (resp'.op = "fetch" /\ resp'.command # NoCommand) =>
            LET c == resp'.command[1]
            IN  /\ c.id \in DOMAIN commands'
                /\ c.agentId = resp'.agentId
                /\ commands'[c.id].agent_id = resp'.agentId
                /\ commands'[c.id].status = "RUNNING"]_vars

\* two agents fetched one after the other and run different commands
ExclusiveAssignmentWitness ==
    /\ resp.op = "fetch" /\ resp.ok
    /\ \E c, d \in DOMAIN commands :
          /\ IsRunning(c) /\ IsRunning(d)
          /\ commands[c].agent_id # commands[d].agent_id
          /\ commands[d].agent_id = resp.agentId
          /\ commands[c].started_at = commands[d].started_at

\* C9: completeCommand returns true exactly when the command existed with
\* status RUNNING and owner = agentId before the call, and a call that
\* returns false changes neither table.
CompleteReturn ==
    [][(resp' # resp /\ resp'.op = "result") =>
          LET c == resp'.commandId
              a == resp'.agentId
          IN  /\ resp'.ok <=> /\ c \in DOMAIN commands
                              /\ commands[c].status = "RUNNING"
                              /\ commands[c].agent_id = a
              /\ ~resp'.ok => (commands' = commands /\ heartbeats' = heartbeats)]_vars

\* a report rejected because the command runs under another agent
CompleteReturnWitness ==
    /\ resp.op = "result" /\ ~resp.ok
    /\ resp.commandId \in DOMAIN commands
    /\ IsRunning(resp.commandId)
    /\ commands[resp.commandId].agent_id # resp.agentId

\* C10: a report completeCommand rejected is answered 200 when the command
\* is already in the reported terminal status under the reporting agent, and
\* 409 in every other case.
ReplayAcknowledgedForOwnerOnly ==
    (resp.op = "result" /\ ~resp.ok) =>
        resp.code = IF /\ resp.commandId \in DOMAIN commands
                       /\ commands[resp.commandId].status = resp.status
                       /\ commands[resp.commandId].agent_id = resp.agentId
                    THEN 200 ELSE 409

\* C11: when the report that directly follows an accepted report repeats its
\* agent, command and status, it is answered 200 and the command's row and
\* every liveness record stay as the accepted report left them.
ReplayIdempotent ==
    [][(/\ resp.op = "result" /\ resp.ok
        /\ resp'.op = "result"
        /\ resp'.agentId = resp.agentId
        /\ resp'.commandId = resp.commandId
        /\ resp'.status = resp.status) =>
          /\ resp'.code = 200
          /\ commands' = commands
          /\ heartbeats' = heartbeats]_vars

\* the owner's repeated report was acknowledged without being applied again
ReplayIdempotentWitness ==
    /\ resp.op = "result" /\ ~resp.ok /\ resp.code = 200
    /\ resp.commandId \in DOMAIN commands
    /\ commands[resp.commandId].status = resp.status
    /\ commands[resp.commandId].agent_id = resp.agentId
    /\ heartbeats[resp.agentId].current_command_id = NoCmd
    /\ heartbeats[resp.agentId].last_heartbeat = commands[resp.commandId].completed_at

\* C12: the restart leaves no command RUNNING: a command that was RUNNING
\* is PENDING with owner and started_at cleared, and every other command is
\* unchanged.
RestartRecovery ==
    [][(resp'.op = "restart" /\ now' = now) =>
          /\ DOMAIN commands' = DOMAIN commands
          /\ \A id \in DOMAIN commands :
                /\ commands'[id].status # "RUNNING"
                /\ IsRunning(id) =>
                      /\ commands'[id].status = "PENDING"
                      /\ commands'[id].agent_id = NoAgent
                      /\ commands'[id].started_at = NoTime
                /\ ~IsRunning(id) => commands'[id] = commands[id]]_vars

\* after a restart: a command put back to PENDING that the liveness table
\* still names, beside a terminal command
RestartRecoveryWitness ==
    /\ resp.op = "restart"
    /\ \E c, d \in DOMAIN commands, a \in DOMAIN heartbeats :
          /\ IsPending(c) /\ commands[c].updated_at > commands[c].created_at
          /\ heartbeats[a].current_command_id = c
          /\ IsTerminal(d)

\* C13: right after checkStaleCommands no command is RUNNING under an owner
\* whose last_heartbeat is older than now - timeout.
StaleReclaimComplete ==
    [][(resp'.op = "stale" /\ now' = now) =>
          \A id \in DOMAIN commands' :
              commands'[id].status = "RUNNING" =>
                  /\ commands'[id].agent_id \in DOMAIN heartbeats'
                  /\ heartbeats'[commands'[id].agent_id].last_heartbeat
                        >= now' - CommandTimeout]_vars

\* C14: a command whose owner has been silent for longer than the timeout
\* since the fetch that assigned it (the liveness record still names the
\* command) is PENDING without owner after the stale check, which is what a
\* fetch looks for.
SilentOwnerReclaimed ==
    [][\A id \in DOMAIN commands :
          (/\ resp'.op = "stale" /\ now' = now
           /\ IsRunning(id)
           /\ commands[id].agent_id \in DOMAIN heartbeats
           /\ heartbeats[commands[id].agent_id].current_command_id = id
           /\ heartbeats[commands[id].agent_id].last_heartbeat < now - CommandTimeout) =>
              /\ commands'[id].status = "PENDING"
              /\ commands'[id].agent_id = NoAgent
              /\ commands'[id].started_at = NoTime
              /\ heartbeats'[commands[id].agent_id].current_command_id = NoCmd]_vars

\* the reclaimed command was fetched again by the other agent, while the
\* silent owner's record keeps its old heartbeat time
SilentOwnerReclaimedWitness ==
    /\ resp.op = "fetch" /\ resp.ok
    /\ \E c \in DOMAIN commands, a \in DOMAIN heartbeats :
          /\ IsRunning(c) /\ commands[c].agent_id = resp.agentId
          /\ a # resp.agentId
          /\ heartbeats[a].current_command_id = NoCmd
          /\ heartbeats[a].last_heartbeat < commands[c].started_at
          /\ \A d \in DOMAIN commands : commands[d].agent_id # a

\* C20: a command enters the table PENDING, by POST /commands; its status
\* then changes only PENDING -> RUNNING (a fetch), RUNNING -> COMPLETED or
\* FAILED (a report sent by its owner) and RUNNING -> PENDING (the stale
\* check or the restart recovery); no command goes from PENDING to a
\* terminal status and none leaves the table.
LifecycleTransitions ==
    [][/\ DOMAIN commands \subseteq DOMAIN commands'
       /\ \A id \in DOMAIN commands' :
            IF id \notin DOMAIN commands
            THEN commands'[id].status = "PENDING" /\ resp'.op = "create"
            ELSE LET old == commands[id].status
                     new == commands'[id].status
                 IN  \/ new = old
                     \/ /\ old = "PENDING" /\ new = "RUNNING"
                        /\ resp'.op = "fetch"
                     \/ /\ old = "RUNNING" /\ new \in {"COMPLETED", "FAILED"}
                        /\ resp'.op = "result"
                        /\ resp'.agentId = commands[id].agent_id
                        /\ resp'.status = new
                     \/ /\ old = "RUNNING" /\ new = "PENDING"
                        /\ resp'.op \in {"stale", "restart"}]_vars

\* a report by the owner has just been accepted while another command,
\* assigned and reclaimed earlier, waits PENDING again
LifecycleTransitionsWitness ==
    /\ resp.op = "result" /\ resp.ok
    /\ resp.commandId \in DOMAIN commands
    /\ commands[resp.commandId].status = resp.status
    /\ \E d \in DOMAIN commands :
          IsPending(d) /\ commands[d].updated_at > commands[d].created_at

\* C15: every submitted command eventually reaches COMPLETED or FAILED, so
\* none stays RUNNING forever under an owner that has died.
EventuallyTerminal ==
    \A id \in CmdIds :
        (id \in DOMAIN commands) ~> (id \in DOMAIN commands /\ IsTerminal(id))

\* C16: an agent process started while the server held a command RUNNING
\* for its identity never calls the executor on that command (here: as long
\* as the command is in the one assignment it has ever had).
NoExecutionAfterRestart ==
    \A a \in Agents :
        (/\ agent[a].pc = "running"
         /\ agent[a].held # NoCmd
         /\ assigned[agent[a].held] = 1) => agent[a].cmd # agent[a].held

\* C17: when the server accepts the FAILED report a restarted agent sends
\* for its unfinished command, the command is PENDING again.
RecoveryReportResets ==
    [][\A a \in Agents, id \in DOMAIN commands :
          (/\ agent[a].pc = "recover" /\ agent[a].cmd = id
           /\ IsRunning(id) /\ commands[id].agent_id = a
           /\ commands'[id].status # "RUNNING") =>
              commands'[id].status = "PENDING"]_vars

\* C18: with no agent crash and no lost message, whatever restarts the
\* server goes through, no command's executor is called more than once, and
\* a COMPLETED command's executor has been called once.
ProcessedOnceAcrossRestart ==
    (faults.crashes = 0 /\ faults.lost = 0) =>
        \A id \in DOMAIN commands :
            /\ executed[id] <= 1
            /\ commands[id].status = "COMPLETED" => executed[id] = 1

FailsValidation(body) ==
    \/ body.type = "missing"
    \/ body.payload = "missing"
    \/ body.type \notin {"DELAY", "HTTP_GET_JSON"}
    \/ body.type = "DELAY" /\ body.payload \notin {"ms:500", "ms:1e999"}
    \/ body.type = "HTTP_GET_JSON" /\ body.payload # "url:ok"

CreateValidated ==
    [][(resp' # resp /\ resp'.op = "create") =>
        /\ resp'.code = (IF FailsValidation(resp'.body) THEN 400 ELSE 201)
        /\ resp'.code = 400 => commands' = commands
        /\ resp'.code = 201 =>
             LET id == resp'.commandId
             IN  /\ id \notin DOMAIN commands
                 /\ DOMAIN commands' = DOMAIN commands \cup {id}
                 /\ \A c \in DOMAIN commands : commands'[c] = commands[c]
                 /\ commands'[id].status = "PENDING"
                 /\ commands'[id].result = NoText
                 /\ commands'[id].agent_id = NoAgent
                 /\ commands'[id].started_at = NoTime
                 /\ commands'[id].completed_at = NoTime
                 /\ commands'[id].type = resp'.body.type]_vars

\* a second command was accepted while the first one was RUNNING
CreateValidatedWitness ==
    /\ resp.op = "create" /\ resp.code = 201 /\ resp.commandId = 2
    /\ resp.body = Body("HTTP_GET_JSON", "url:ok")
    /\ commands[1].status = "RUNNING"
    /\ commands[2].status = "PENDING"

\* ------------------------------------------------------------------ C27
\* the PENDING commands that share the smallest created_at
Tied ==
    {o \in DOMAIN commands :
        /\ IsPending(o)
        /\ \A p \in DOMAIN commands :
              IsPending(p) => commands[o].created_at <= commands[p].created_at}

\* C27 as stated: when several PENDING commands share the smallest
\* created_at, the command a fetch assigns is the one with the smallest id
\* among them.
TieBrokenById ==
    [][\A id \in DOMAIN commands :
          (IsPending(id) /\ commands'[id].status = "RUNNING") =>
              \A o \in Tied : id <= o]_vars

\* C27, amended: the command a fetch assigns is one of those that share the
\* smallest created_at, whatever its id, and the fetch changes no other command.
TieBrokenOpen ==
    [][\A id \in DOMAIN commands :
          (IsPending(id) /\ commands'[id].status = "RUNNING") =>
              /\ id \in Tied
              /\ \A o \in DOMAIN commands \ {id} : commands'[o] = commands[o]]_vars

\* of two commands created at the same time the one with the larger id was
\* assigned and the other one still waits, never assigned
TieBrokenOpenWitness ==
    \E c, d \in DOMAIN commands :
        /\ c < d
        /\ commands[c].created_at = commands[d].created_at
        /\ IsPending(c) /\ commands[c].updated_at = commands[c].created_at
        /\ IsRunning(d)

\* ------------------------------------------------------------------ C28
\* C28: a stale check changes no PENDING, COMPLETED or FAILED command, and
\* no RUNNING command whose owner's last_heartbeat is within the timeout: a
\* command it changes was RUNNING under an owner that has been silent for
\* longer than the timeout, so an owner whose heartbeats come more often than
\* the timeout keeps its command.
StaleTouchesDeadOwnersOnly ==
    [][(resp'.op = "stale" /\ now' = now) =>
          \A id \in DOMAIN commands :
              \/ commands'[id] = commands[id]
              \/ /\ IsRunning(id)
                 /\ commands[id].agent_id \in DOMAIN heartbeats
                 /\ heartbeats[commands[id].agent_id].last_heartbeat
                        < now - CommandTimeout]_vars

\* a stale check has reset one command and left alone the RUNNING command of
\* an owner whose heartbeat is as recent as the clock
StaleTouchesDeadOwnersOnlyWitness ==
    /\ resp.op = "stale" /\ resp.commandId = 1
    /\ \E c, d \in DOMAIN commands :
          /\ IsRunning(c)
          /\ heartbeats[commands[c].agent_id].last_heartbeat = now
          /\ heartbeats[commands[c].agent_id].current_command_id = c
          /\ commands[c].updated_at < now
          /\ IsPending(d) /\ commands[d].updated_at = now
          /\ commands[d].created_at < now

\* ------------------------------------------------------------------ C29
\* C29: a report that completeCommand accepts from owner A for command c
\* sets c's status to the reported terminal status, its result to the
\* reported result (the error field alone when FAILED is reported with a null
\* result and an error), completed_at and updated_at to now; it clears
\* current_command_id in A's liveness record; c keeps its owner A and its
\* started_at, every other field and every other command: the terminal
\* command read back still names A.
CompleteFrame ==
    [][(resp'.op = "result" /\ resp'.ok /\ now' = now) =>
          LET c == resp'.commandId
              A == resp'.agentId
          IN  /\ commands'[c].status = resp'.status
              /\ resp'.status \in Terminal
              /\ commands'[c].result =
                     (IF resp'.status = "COMPLETED" THEN "'{res}'" ELSE "'{error}'")
              /\ commands'[c].completed_at = now
              /\ commands'[c].updated_at = now
              /\ heartbeats'[A].current_command_id = NoCmd
              /\ heartbeats'[A].last_heartbeat = now
              /\ \A a \in DOMAIN heartbeats \ {A} :
                    a \in DOMAIN heartbeats' /\ heartbeats'[a] = heartbeats[a]
              /\ commands'[c].agent_id = A /\ commands[c].agent_id = A
              /\ commands'[c].started_at = commands[c].started_at
              /\ commands'[c].started_at # NoTime
              /\ commands'[c].type = commands[c].type
              /\ commands'[c].payload = commands[c].payload
              /\ commands'[c].created_at = commands[c].created_at
              /\ DOMAIN commands' = DOMAIN commands
              /\ \A o \in DOMAIN commands \ {c} : commands'[o] = commands[o]
              /\ rowToCommand(c, commands'[c]).agentId = A]_vars

\* a FAILED report was accepted one clock step after the assignment: the
\* command holds the error, its owner and its earlier started_at
CompleteFrameWitness ==
    /\ resp.op = "result" /\ resp.ok /\ resp.status = "FAILED"
    /\ commands[resp.commandId].status = "FAILED"
    /\ commands[resp.commandId].result = "'{error}'"
    /\ commands[resp.commandId].agent_id = resp.agentId
    /\ commands[resp.commandId].started_at < now
    /\ commands[resp.commandId].completed_at = now
    /\ heartbeats[resp.agentId].current_command_id = NoCmd

\* ------------------------------------------------------------------ C23
\* C23: an agent has at most one executor invocation in progress, and while
\* one is in progress it is inside executeAndReport's await: it is not at a
\* fetch and not about to start an executor, so its executions follow one
\* another.
SequentialExecution ==
    \A a \in Agents :
        /\ Cardinality(agent[a].running) <= 1
        /\ agent[a].running # {} =>
              /\ agent[a].pc = "running"
              /\ agent[a].running = {agent[a].cmd}
        /\ agent[a].pc \in {"sync", "recover", "poll", "fetch", "exec", "report"} =>
              agent[a].running = {}

\* the agent executes its second command after it has reported the first
SequentialExecutionWitness ==
    \E a \in Agents, c, d \in DOMAIN commands :
        /\ c # d
        /\ IsTerminal(c) /\ commands[c].agent_id = a
        /\ executed[c] = 1 /\ executed[d] = 1
        /\ agent[a].pc = "running" /\ agent[a].running = {d}
        /\ IsRunning(d) /\ commands[d].agent_id = a

\* ------------------------------------------------------------------ C24
\* C24: the heartbeat timer of a command is cancelled on every exit path of
\* its execution: a heartbeat that binds the agent's liveness record to a
\* command at the current time outside the poll loop (the agent itself does
\* not move, no command changes) is sent
\* only while the executor invocation for that command is in progress, never
\* after the executor has returned or thrown.
HeartbeatTimerCancelled ==
    [][\A a \in Agents :
          (/\ agent' = agent /\ commands' = commands /\ now' = now
           /\ a \in DOMAIN heartbeats'
           /\ heartbeats'[a].current_command_id # NoCmd
           /\ heartbeats'[a].last_heartbeat = now
           /\ (a \notin DOMAIN heartbeats \/ heartbeats'[a] # heartbeats[a])) =>
              heartbeats'[a].current_command_id \in agent[a].running]_vars

\* ------------------------------------------------------------------ C25
\* C25: every execution is followed by one result report and every report
\* follows an execution: when the executor ends the agent goes to report
\* that command; from there its only step delivers the report and returns to
\* the poll loop; the report makes the command FAILED with the error in its
\* result if the executor threw, COMPLETED with the executor's result
\* otherwise; no command becomes terminal in any other way.
OneReportPerExecution ==
    [][\A a \in Agents :
          /\ (agent[a].pc = "running" /\ agent'[a].pc # "running") =>
                /\ agent'[a].pc = "report"
                /\ agent'[a].cmd = agent[a].cmd
          /\ (agent'[a].pc = "report" /\ agent[a].pc # "report") =>
                /\ agent[a].pc = "running"
                /\ executed[agent[a].cmd] > 0
          /\ (agent[a].pc = "report" /\ agent'[a] # agent[a]) =>
                LET c == agent[a].cmd
                    threw == agent[a].result.threw
                IN  /\ agent'[a].pc = "poll"
                    /\ IsRunning(c)
                    /\ threw => agent[a].result.message # NoError
                    /\ commands'[c].status = (IF threw THEN "FAILED" ELSE "COMPLETED")
                    /\ commands'[c].result = (IF threw THEN "'{error}'" ELSE "'{res}'")
          /\ \A c \in DOMAIN commands :
                (~IsTerminal(c) /\ commands'[c].status \in Terminal) =>
                    \E b \in Agents : agent[b].pc = "report" /\ agent[b].cmd = c]_vars

\* one command whose executor threw is FAILED with the error, another one
\* is COMPLETED, each executed once
OneReportPerExecutionWitness ==
    \E c, d \in DOMAIN commands :
        /\ commands[c].status = "FAILED" /\ commands[c].result = "'{error}'"
        /\ commands[d].status = "COMPLETED" /\ commands[d].result = "'{res}'"
        /\ executed[c] = 1 /\ executed[d] = 1
        /\ \A a \in Agents : agent[a].pc \in {"down", "poll"}

\* ------------------------------------------------------------------ C26
\* the command agent a executes or reports
CurrentCommand(a) == rowToCommand(agent[a].cmd, commands[agent[a].cmd])

\* C26: the executor of an HTTP_GET_JSON command never throws, whatever the
\* network does: when the connection, the read of the body or the deadline
\* fails it returns status 0, body null, truncated false, bytesReturned 0 and
\* the error message, and the report that follows makes the command
\* COMPLETED, not FAILED.
HttpNeverThrows ==
    [][\A a \in Agents :
          /\ (/\ agent[a].pc = "running" /\ agent'[a].pc = "report"
              /\ CurrentCommand(a).type = "HTTP_GET_JSON") =>
                LET r == agent'[a].result
                IN  /\ ~r.threw
                    /\ r.net \in {"ok", "refused", "deadline", "bodyError"}
                    /\ r.net # "ok" =>
                          /\ r.value.status = 0
                          /\ r.value.body = "null"
                          /\ r.value.truncated = FALSE
                          /\ r.value.bytesReturned = 0
                          /\ r.value.error = r.net
                    /\ r.net = "ok" => r.value.error = "null"
          /\ (/\ agent[a].pc = "report" /\ agent'[a].pc = "poll"
              /\ CurrentCommand(a).type = "HTTP_GET_JSON") =>
                /\ commands'[agent[a].cmd].status = "COMPLETED"
                /\ commands'[agent[a].cmd].result = "'{res}'"]_vars

\* the GET ran into the deadline and the agent is about to report the
\* status-0 result
HttpNeverThrowsWitness ==
    \E a \in Agents :
        /\ agent[a].pc = "report"
        /\ CurrentCommand(a).type = "HTTP_GET_JSON"
        /\ agent[a].result.net = "deadline"
        /\ agent[a].result.value.status = 0

\* ------------------------------------------------------------------ C30
\* C30: a call to sync, fetch or result (the recovery report included) makes
\* at most 3 attempts: the first at once, the second after 1000 ms, the third
\* after 2000 ms; a failed first or second attempt is followed by the next
\* attempt of the same call, a failed third attempt ends the call and the
\* agent goes on with its poll loop.  A heartbeat is attempted once: when it
\* fails the loop goes on to the fetch as it does when it succeeds, and the
\* agent is never waiting for a retry while it polls or executes.
RetrySchedule ==
    [][\A a \in Agents :
          LET me == agent[a]
              to == agent'[a]
              failed == faults'.lost = faults.lost + 1 /\ to # me
          IN  /\ to.try \in {0, 1, 2}
              /\ to.wait = (CASE to.try = 0 -> 0 [] to.try = 1 -> 1000 [] to.try = 2 -> 2000)
              /\ to.pc \in {"down", "poll", "exec", "running"} => to.try = 0
              /\ (failed /\ me.pc \in {"sync", "recover", "fetch", "report"}) =>
                    IF me.try < 2
                    THEN to.pc = me.pc /\ to.cmd = me.cmd /\ to.try = me.try + 1
                    ELSE to.pc = "poll" /\ to.try = 0
              /\ (failed /\ me.pc = "poll") =>
                    /\ to.pc = "fetch" /\ to.try = 0
                    /\ to.cmd = me.cmd /\ to.running = me.running]_vars

\* a report is at its third attempt, 2000 ms after the second
RetryScheduleWitness ==
    \E a \in Agents :
        /\ agent[a].pc = "report" /\ agent[a].try = 2 /\ agent[a].wait = 2000
        /\ faults.lost = 2

\* ------------------------------------------------------------------ C21
\* C21: the report of an agent that was executing c when a server restart
\* reset c to PENDING (the agent is at its report and c is no longer RUNNING
\* under it; no process was killed, no message lost) is answered 409 and
\* changes no command.  (The claim goes on: at its next poll the agent, or
\* another one, is assigned c again.)
ReportAfterRestartRejected ==
    [][\A a \in Agents :
          (/\ faults.crashes = 0 /\ faults.lost = 0 /\ faults' = faults
           /\ agent[a].pc = "report" /\ agent'[a].pc = "poll"
           /\ ~(IsRunning(agent[a].cmd) /\ commands[agent[a].cmd].agent_id = a)) =>
              /\ ResultResponse(a, agent[a].cmd, Report(agent[a].result)[1]).code = 409
              /\ commands' = commands]_vars

\* ------------------------------------------------------------------ C37
\* C37: no operation removes a command, and no operation (fetch, report,
\* stale reclamation and restart recovery included) changes the type, the
\* payload or the created_at of a command: the set of ids only grows and a
\* command keeps under its id what it was created with.
IdentityImmutable ==
    [][/\ DOMAIN commands \subseteq DOMAIN commands'
       /\ \A id \in DOMAIN commands :
             /\ commands'[id].type = commands[id].type
             /\ commands'[id].payload = commands[id].payload
             /\ commands'[id].created_at = commands[id].created_at]_vars

\* a command assigned after its creation time has been completed, beside a
\* younger command of the other type
IdentityImmutableWitness ==
    \E c, d \in DOMAIN commands :
        /\ commands[c].created_at < commands[d].created_at
        /\ commands[c].status = "COMPLETED"
        /\ commands[c].started_at > commands[c].created_at
        /\ commands[d].type # commands[c].type

\* ------------------------------------------------------------------ C38
\* C38: a heartbeat changes no command and no liveness record but the
\* sender's, which gets last_heartbeat = now and the command id the request
\* carried (null when it carried none), whether or not such a command
\* exists; a sync changes neither table.
HeartbeatSyncFrame ==
    [][/\ (resp'.op = "heartbeat" /\ now' = now) =>
             /\ commands' = commands
             /\ DOMAIN heartbeats' = DOMAIN heartbeats \cup {resp'.agentId}
             /\ heartbeats'[resp'.agentId].last_heartbeat = now
             /\ heartbeats'[resp'.agentId].current_command_id = resp'.commandId
             /\ \A a \in DOMAIN heartbeats \ {resp'.agentId} :
                   heartbeats'[a] = heartbeats[a]
       /\ (resp'.op = "sync" /\ now' = now) =>
             /\ commands' = commands
             /\ heartbeats' = heartbeats]_vars

\* a heartbeat named a command that another agent runs; the command and the
\* owner's record are as they were
HeartbeatSyncFrameWitness ==
    /\ resp.op = "heartbeat" /\ resp.commandId # NoCmd
    /\ resp.commandId \in DOMAIN commands
    /\ IsRunning(resp.commandId)
    /\ commands[resp.commandId].agent_id # resp.agentId
    /\ heartbeats[resp.agentId].current_command_id = resp.commandId
    /\ heartbeats[commands[resp.commandId].agent_id].current_command_id = resp.commandId

\* ------------------------------------------------------------------ C39
\* C39: in every state of the store a PENDING command has no owner, no
\* started_at, no result and no completed_at, and a command has a
\* completed_at exactly when it is COMPLETED or FAILED.
PendingIsBlank ==
    \A id \in DOMAIN commands :
        /\ IsPending(id) =>
              /\ commands[id].agent_id = NoAgent
              /\ commands[id].started_at = NoTime
              /\ commands[id].result = NoText
              /\ commands[id].completed_at = NoTime
        /\ commands[id].completed_at # NoTime <=> IsTerminal(id)

\* a command is PENDING again after a reset, another one is FAILED
PendingIsBlankWitness ==
    \E c, d \in DOMAIN commands :
        /\ IsPending(c) /\ commands[c].updated_at > commands[c].created_at
        /\ commands[d].status = "FAILED" /\ commands[d].completed_at = now

\* ------------------------------------------------------------------ C40
\* C40: the restart recovery changes no liveness record, so a record may go
\* on naming a command that is PENDING now; a stale check that follows the
\* restart (no request in between) resets no command.
RestartKeepsLiveness ==
    [][/\ (resp'.op = "restart" /\ now' = now) => heartbeats' = heartbeats
       /\ (resp.op = "restart" /\ resp'.op = "stale") =>
             /\ commands' = commands
             /\ resp'.commandId = 0]_vars

\* after the restart a record whose heartbeat is older than the timeout
\* still names the command it ran, which is PENDING
RestartKeepsLivenessWitness ==
    /\ resp.op = "restart"
    /\ \E a \in DOMAIN heartbeats :
          /\ heartbeats[a].current_command_id \in DOMAIN commands
          /\ IsPending(heartbeats[a].current_command_id)
          /\ commands[heartbeats[a].current_command_id].updated_at = now
          /\ heartbeats[a].last_heartbeat < now - CommandTimeout

\* ------------------------------------------------------------------ C31
\* C31: when the third attempt of a fetch or of a report fails, the process
\* stays up and is at the top of the next poll cycle with no current command;
\* a poll cycle goes on to a fresh fetch; a fetch that is answered while the
\* server has a command RUNNING for the agent hands the agent that command;
\* and the agent then runs its executor on it (again).
RetryInNextCycle ==
    [][\A a \in Agents :
          /\ (/\ agent[a].pc \in {"fetch", "report"}
              /\ agent[a].try = Retries - 1
              /\ faults'.lost # faults.lost
              /\ agent'[a] # agent[a])
                => /\ agent'[a].pc = "poll"
                   /\ agent'[a].cmd = NoCmd
                   /\ agent'[a].try = 0
          /\ (agent[a].pc = "poll" /\ agent'[a].pc \notin {"poll", "down"})
                => agent'[a].pc = "fetch" /\ agent'[a].try = 0
          /\ (/\ agent[a].pc = "fetch"
              /\ agent'[a] # agent[a]
              /\ faults' = faults
              /\ \E c \in DOMAIN commands :
                    commands[c].status = "RUNNING" /\ commands[c].agent_id = a)
                => /\ agent'[a].pc = "exec"
                   /\ agent'[a].cmd \in DOMAIN commands
                   /\ commands[agent'[a].cmd].status = "RUNNING"
                   /\ commands[agent'[a].cmd].agent_id = a
                   /\ commands' = commands
          /\ (agent[a].pc = "exec" /\ agent'[a].pc \notin {"exec", "down"})
                => /\ agent'[a].pc = "running"
                   /\ agent'[a].cmd = agent[a].cmd
                   /\ executed'[agent[a].cmd] =
                         IF executed[agent[a].cmd] < MaxRuns
                         THEN executed[agent[a].cmd] + 1
                         ELSE executed[agent[a].cmd]]_vars

\* no process crashed, the server stayed up and the command was assigned
\* once: the three attempts of its report were lost before the server, and
\* the agent got it again and executes it a second time
RetryInNextCycleWitness ==
    \E a \in Agents, c \in DOMAIN commands :
        /\ faults.lost = Retries /\ faults.crashes = 0 /\ faults.restarts = 0
        /\ agent[a].pc = "running" /\ agent[a].cmd = c
        /\ commands[c].status = "RUNNING" /\ commands[c].agent_id = a
        /\ assigned[c] = 1 /\ executed[c] = 2

\* ------------------------------------------------------------------ C32
\* C32: a process starts in its sync call; when sync ends it goes to the
\* FAILED report if sync returned an unfinished command and to the poll loop
\* otherwise; the report ends in the poll loop; and while the process is in
\* sync or in the report no heartbeat timer of it is set, no command is
\* assigned to it, and its liveness record is written by a request only when
\* the FAILED report is accepted.  Heartbeats and fetches are sent from the
\* poll loop only.
StartupOrder ==
    [][\A a \in Agents :
          /\ (agent[a].pc = "down" /\ agent'[a].pc # "down")
                => agent'[a].pc = "sync"
          /\ (agent[a].pc = "sync" /\ agent'[a].pc \notin {"sync", "down"})
                => IF /\ faults' = faults
                      /\ \E c \in DOMAIN commands :
                            commands[c].status = "RUNNING" /\ commands[c].agent_id = a
                   THEN /\ agent'[a].pc = "recover"
                        /\ agent'[a].cmd \in DOMAIN commands
                        /\ commands[agent'[a].cmd].status = "RUNNING"
                        /\ commands[agent'[a].cmd].agent_id = a
                   ELSE agent'[a].pc = "poll"
          /\ (agent[a].pc = "recover" /\ agent'[a].pc \notin {"recover", "down"})
                => agent'[a].pc = "poll"
          /\ agent[a].pc \in {"sync", "recover"}
                => /\ agent[a].timers = {}
                   /\ \A c \in DOMAIN commands' :
                         (commands'[c].status = "RUNNING" /\ commands'[c].agent_id = a)
                            => c \in DOMAIN commands /\ commands'[c] = commands[c]
                   /\ (/\ a \in DOMAIN heartbeats'
                       /\ heartbeats'[a].last_heartbeat = now
                       /\ (a \in DOMAIN heartbeats => heartbeats'[a] # heartbeats[a]))
                         => /\ agent[a].pc = "recover"
                            /\ commands[agent[a].cmd].status = "RUNNING"
                            /\ commands'[agent[a].cmd].status = "FAILED"]_vars

\* a restarted process sends its first fetch: the command the server had
\* RUNNING for it at the start is FAILED
StartupOrderWitness ==
    \E a \in Agents :
        /\ agent[a].pc = "fetch"
        /\ agent[a].held # NoCmd
        /\ commands[agent[a].held].status = "FAILED"
        /\ commands[agent[a].held].agent_id = a

\* ------------------------------------------------------------------ C33
\* C33: a start in a directory without agent-id.txt writes the file and runs
\* under the identifier written; a start in a directory that has the file
\* runs under the identifier the file holds and leaves the file as it is; no
\* other step writes the file or changes the identifier of a running process.
IdentityStable ==
    [][\A a \in Agents :
          /\ (agent[a].pc = "down" /\ agent'[a].pc # "down")
                => IF agent[a].file = NoFile
                   THEN agent'[a].file # NoFile /\ agent'[a].id = agent'[a].file
                   ELSE agent'[a].file = agent[a].file /\ agent'[a].id = agent[a].file
          /\ agent[a].file # NoFile => agent'[a].file = agent[a].file
          /\ (agent[a].pc # "down" /\ agent'[a].pc # "down")
                => agent'[a].id = agent[a].id /\ agent'[a].file = agent[a].file]_vars

\* a process that was started again after a crash, while the server still
\* had a command RUNNING for it, runs under the identifier of the file
IdentityStableWitness ==
    \E a \in Agents :
        /\ faults.crashes = 1
        /\ agent[a].pc = "recover"
        /\ agent[a].held # NoCmd
        /\ agent[a].file # NoFile
        /\ agent[a].id = agent[a].file

\* ------------------------------------------------------------------ C34
\* C34: a call of the DELAY executor with a positive ms sleeps at most 1000 ms
\* at a time and only while the elapsed time is below ms, has called
\* onProgress once for every sleep that ended, returns {ok: true, tookMs}
\* with tookMs >= ms and only when the elapsed time has reached ms, and every
\* call returns.
DelayTerminates ==
    /\ [](run.kind = "DELAY" =>
             /\ run.targetMs > 0
             /\ run.progress = run.chunks
             /\ run.pc = "sleep" =>
                   /\ run.sleepTime > 0 /\ run.sleepTime <= 1000
                   /\ run.elapsed < run.targetMs
             /\ run.pc = "returned" =>
                   /\ run.result.ok
                   /\ run.result.tookMs >= run.targetMs
                   /\ run.elapsed >= run.targetMs)
    /\ [][(run.kind = "DELAY" /\ run.pc = "sleep" /\ run' # run) =>
             /\ run'.kind = "DELAY" /\ run'.targetMs = run.targetMs
             /\ run'.chunks = run.chunks + 1
             /\ run'.progress = run.progress + 1
             /\ run'.elapsed > run.elapsed]_vars
    /\ (run.kind = "DELAY" /\ run.pc = "sleep")
          ~> (run.kind = "DELAY" /\ run.pc = "returned")

\* a delay of 2001 ms whose timers fired early: a fourth sleep was needed
DelayTerminatesWitness ==
    /\ run.kind = "DELAY" /\ run.pc = "returned"
    /\ run.targetMs = 2001
    /\ run.chunks = 4 /\ run.progress = 4
    /\ run.result.tookMs >= 2001

\* ------------------------------------------------------------------ C35
\* C35: in the result of an HTTP_GET_JSON call whose body was read, truncated
\* is set exactly when the body has more than MAX_BODY_SIZE bytes,
\* bytesReturned is the byte length of the whole body, and a truncated result
\* carries the longest prefix of the body that has at most MAX_BODY_SIZE
\* bytes: parsed, if it is JSON, or as text with the truncation marker.
TruncatedToMaxBytes ==
    (run.kind = "HTTP_GET_JSON" /\ run.pc = "returned" /\ run.result.error = "null")
        => /\ run.result.truncated <=> byteLength(run.text) > MAX_BODY_SIZE
           /\ run.result.bytesReturned = byteLength(run.text)
           /\ run.result.truncated =>
                 LET content == run.result.body.text
                 IN  /\ Len(content) <= Len(run.text)
                     /\ content = SubSeq(run.text, 1, Len(content))
                     /\ byteLength(content) <= MAX_BODY_SIZE
                     /\ Len(content) < Len(run.text) =>
                           byteLength(SubSeq(run.text, 1, Len(content) + 1)) > MAX_BODY_SIZE
                     /\ \/ run.result.body.parsed /\ IsJson(content)
                        \/ ~run.result.body.parsed /\ run.result.body.marker

\* ------------------------------------------------------------------ C36
\* C36: while an HTTP_GET_JSON call waits for the response's headers or for
\* its body the abort timer is set, and every call returns a result, whatever
\* the network delivers.
HttpTerminates ==
    /\ []((run.kind = "HTTP_GET_JSON" /\ run.pc \in {"headers", "body"}) => run.timeout)
    /\ (run.kind = "HTTP_GET_JSON" /\ run.pc \in {"headers", "body"})
          ~> (run.kind = "HTTP_GET_JSON" /\ run.pc = "returned")

====
